---- MODULE Spec2Model ----
(***************************************************************************)
(* A model of superpacs.py: main() loads or fetches a list of committee    *)
(* records, normalises their names, collects every proper word n-gram of   *)
(* every name, keeps the n-grams shared by two or more committees, ranks   *)
(* them and writes the ranking and the receipts of the committees in it.   *)
(*                                                                         *)
(* A Python string is a sequence of one-character strings.  A dict is a    *)
(* function; its iteration order is not part of its value and is chosen    *)
(* where the code iterates over it.                                        *)
(***************************************************************************)
EXTENDS Integers, Sequences, FiniteSets, TLC

VARIABLES pc, cached, items, written, original_names, names, by_length,
          top_ngrams, all_receipts, specific_receipts, raw, once, twice

vars == <<pc, cached, items, written, original_names, names, by_length,
          top_ngrams, all_receipts, specific_receipts, raw, once, twice>>

normalize_vars == <<raw, once, twice>>

(***************************************************************************)
(* Bounds of the model.                                                    *)
(***************************************************************************)
\* The longest list of records a run is given.
MaxItems == 3
\* The longest string normalisation is applied to on its own.
MaxLen == 6

(***************************************************************************)
(* Python's string operations, as the code uses them.                      *)
(***************************************************************************)
Range(s) == {s[k] : k \in DOMAIN s}

\* str.find(sub): the lowest 0-based index where sub occurs, or -1.
find(s, sub) ==
    LET hits == {k \in 0..(Len(s) - Len(sub)) :
                    SubSeq(s, k + 1, k + Len(sub)) = sub}
    IN  IF hits = {} THEN -1
        ELSE CHOOSE k \in hits : \A j \in hits : k <= j

\* str.replace(old, new): every non-overlapping occurrence, left to right.
RECURSIVE replace(_, _, _)
replace(s, old, new) ==
    LET k == find(s, old)
    IN  IF k = -1 THEN s
        ELSE SubSeq(s, 1, k) \o new \o
                 replace(SubSeq(s, k + Len(old) + 1, Len(s)), old, new)

\* re.sub(r'[,()/]', ' ', s)
sub_punctuation(s) ==
    [k \in 1..Len(s) |-> IF s[k] \in {",", "(", ")", "/"} THEN " " ELSE s[k]]

lstrip(s) ==
    LET kept == {k \in 1..Len(s) : s[k] /= " "}
    IN  IF kept = {} THEN <<>>
        ELSE SubSeq(s, CHOOSE k \in kept : \A j \in kept : k <= j, Len(s))

rstrip(s) ==
    LET kept == {k \in 1..Len(s) : s[k] /= " "}
    IN  IF kept = {} THEN <<>>
        ELSE SubSeq(s, 1, CHOOSE k \in kept : \A j \in kept : k >= j)

\* str.strip(); the space is the only whitespace of the model's alphabets.
strip(s) == rstrip(lstrip(s))

\* re.sub(r' +', ' ', s): each maximal run of spaces becomes one space.
RECURSIVE sub_spaces(_)
sub_spaces(s) ==
    LET k == find(s, <<" ">>)
    IN  IF k = -1 THEN s
        ELSE SubSeq(s, 1, k) \o <<" ">> \o
                 sub_spaces(lstrip(SubSeq(s, k + 2, Len(s))))

\* str.split(' '): a cut at every single space, empty words kept.
RECURSIVE split(_)
split(s) ==
    LET k == find(s, <<" ">>)
    IN  IF k = -1 THEN <<s>>
        ELSE <<SubSeq(s, 1, k)>> \o split(SubSeq(s, k + 2, Len(s)))

\* ' '.join(words)
RECURSIVE join(_)
join(words) ==
    IF words = <<>> THEN <<>>
    ELSE IF Len(words) = 1 THEN words[1]
         ELSE words[1] \o <<" ">> \o join(Tail(words))

\* list.index(v): the 0-based position of the first occurrence of v.
index(lst, v) == (CHOOSE k \in 1..Len(lst) :
                    lst[k] = v /\ \A j \in 1..(k - 1) : lst[j] /= v) - 1

(***************************************************************************)
(* The two normalisation steps of main().                                  *)
(***************************************************************************)
SEMI_THE == <<";", " ", "T", "H", "E">>
COMMA_THE == <<",", " ", "T", "H", "E">>
THE_ == <<"T", "H", "E", " ">>

\* The same step without the second replace call.
move_article_one_replace(name) ==
    IF find(name, SEMI_THE) > -1 \/ find(name, COMMA_THE) > -1
    THEN THE_ \o replace(name, SEMI_THE, <<>>)
    ELSE name

\* "Move articles to the front"
move_article(name) ==
    IF find(name, SEMI_THE) > -1 \/ find(name, COMMA_THE) > -1
    THEN THE_ \o replace(replace(name, SEMI_THE, <<>>), COMMA_THE, <<>>)
    ELSE name

\* The same step cleaning the string in the other order: collapse, then replace.
remove_punctuation_swapped(name) == strip(sub_punctuation(sub_spaces(name)))

\* "Remove punctuation"
remove_punctuation(name) == strip(sub_spaces(sub_punctuation(name)))

normalize(name) == remove_punctuation(move_article(name))

(***************************************************************************)
(* The records a run may be given: the three committees of the             *)
(* specification's example, a name of one word that is a word of theirs,   *)
(* a name that holds that word twice, punctuation and an article to move,  *)
(* another raw name with the same normalised form, and a record without a  *)
(* name.  total_receipts is optional.                                      *)
(***************************************************************************)
PROSPERITY == <<"A","M","E","R","I","C","A","N","S"," ","F","O","R"," ",
                "P","R","O","S","P","E","R","I","T","Y",","," ","T","H","E">>
LIBERTY == <<"A","M","E","R","I","C","A","N","S"," ","F","O","R"," ",
             "L","I","B","E","R","T","Y">>
PEOPLE == <<"P","E","O","P","L","E"," ","F","O","R"," ",
            "A","M","E","R","I","C","A","N","S">>
FOR == <<"F","O","R">>
FOR_FOR_THE == <<"F","O","R","/","(","F","O","R",")",","," ","T","H","E">>
FOR_FOR_SEMI_THE == <<"F","O","R"," ","F","O","R",";"," ","T","H","E">>

Records ==
    { [name |-> PROSPERITY, total_receipts |-> 100],
      [name |-> LIBERTY, total_receipts |-> 50],
      [name |-> PEOPLE, total_receipts |-> 10],
      [name |-> FOR],
      [name |-> FOR_FOR_THE, total_receipts |-> 0],
      [name |-> FOR_FOR_SEMI_THE, total_receipts |-> 7],
      [total_receipts |-> 5] }

\* Every list of at most MaxItems records.
InputLists == UNION {[1..k -> Records] : k \in 0..MaxItems}

\* The characters normalisation is tried on, on its own.
Alphabet == {";", ",", " ", "T", "H", "E"}
Strings == UNION {[1..k -> Alphabet] : k \in 0..MaxLen}

\* The files a run writes, by the suffix after today's date.
CACHE_JSON == ".json"
NAMES_TXT == "-names.txt"
NGRAMS_JSON == "-ngrams.json"
RECEIPTS_JSON == "-receipts.json"

(***************************************************************************)
(* "Split strings": the n-grams of one name, and the dict of dicts         *)
(* by_length[n][ngram], a list of original names, one per occurrence.      *)
(***************************************************************************)
\* The same loop run up to and including the whole name.
ngram_lengths_inclusive(word_count) == 1..word_count

\* for n in xrange(1, word_count)
ngram_lengths(word_count) == 1..(word_count - 1)

\* The same range one window short.
window_starts_short(word_count, n) == 0..(word_count - n - 1)

\* for x in xrange(word_count - n + 1)
window_starts(word_count, n) == 0..(word_count - n)

\* ngrams = [' '.join(name_words[x:x + n]) for x in xrange(word_count - n + 1)]
ngrams_of(name_words, n) ==
    LET starts == window_starts(Len(name_words), n)
    IN  [k \in 1..Cardinality(starts) |-> join(SubSeq(name_words, k, k + n - 1))]

\* The appends the loop "for n in xrange(1, word_count)" makes for one name,
\* in the order it makes them: <<n, ngram, original_name>>.
RECURSIVE appends_of_name(_, _, _)
appends_of_name(name_words, lengths, original_name) ==
    IF lengths = {} THEN <<>>
    ELSE LET n == CHOOSE m \in lengths : \A j \in lengths : m <= j
             ngrams == ngrams_of(name_words, n)
         IN  [k \in 1..Len(ngrams) |-> <<n, ngrams[k], original_name>>] \o
                 appends_of_name(name_words, lengths \ {n}, original_name)

\* The appends of the loop "for i in xrange(len(names))", from name i on.
RECURSIVE appends_from(_, _, _)
appends_from(nms, originals, i) ==
    IF i > Len(nms) THEN <<>>
    ELSE LET name_words == split(nms[i])
         IN  appends_of_name(name_words, ngram_lengths(Len(name_words)),
                             originals[i]) \o
                 appends_from(nms, originals, i + 1)

\* by_length after the loops: a bucket for every length appended under, a
\* list for every ngram appended under it, the names in the order appended
\* (by_length[n][ngram].append(original_name)).
split_strings(nms, originals) ==
    LET appends == appends_from(nms, originals, 1)
        under(n) == {a \in Range(appends) : a[1] = n}
        list(n, ngram) ==
            LET hits == SelectSeq(appends, LAMBDA a : a[1] = n /\ a[2] = ngram)
            IN  [k \in 1..Len(hits) |-> hits[k][3]]
    IN  [n \in {a[1] : a \in Range(appends)} |->
            [ngram \in {a[2] : a \in under(n)} |-> list(n, ngram)]]

(***************************************************************************)
(* "Remove duplicates"                                                     *)
(***************************************************************************)
\* The same test with the wrong length.
unshared_never(members) == Cardinality(members) = 0

\* if len(by_length[n][ngram]) == 1
unshared(members) == Cardinality(members) = 1

\* list(set(by_length[n][ngram])) is kept as the set: the only reader of the
\* list sorts it by a key that differs for every two members, so the order
\* set iteration gives the list does not reach any output.
remove_duplicates(bl) ==
    LET kept(n) == {g \in DOMAIN bl[n] : ~unshared(Range(bl[n][g]))}
    IN  [n \in {m \in DOMAIN bl : kept(m) /= {}} |->
            [g \in kept(n) |-> Range(bl[n][g])]]

(***************************************************************************)
(* "Sort results"                                                          *)
(***************************************************************************)
\* def item_key(item): return len(item[1])
item_key(item) == Cardinality(item[2])

\* The same ordering without reverse=True.
sorts_before_forward(a, b) == item_key(a) < item_key(b)

\* sorted(..., key=item_key, reverse=True): a goes before b when its key is larger.
sorts_before(a, b) == item_key(a) > item_key(b)

\* sorted() is stable: an item goes behind every item it does not sort before.
RECURSIVE sorted_items(_, _)
sorted_items(done, rest) ==
    IF rest = <<>> THEN done
    ELSE LET item == Head(rest)
             k == Cardinality({j \in 1..Len(done) : ~sorts_before(item, done[j])})
         IN  sorted_items(SubSeq(done, 1, k) \o <<item>> \o
                              SubSeq(done, k + 1, Len(done)),
                          Tail(rest))

\* The orders in which a dict may hand out its keys.
iter_orders(d) ==
    {o \in [1..Cardinality(DOMAIN d) -> DOMAIN d] : Range(o) = DOMAIN d}

\* by_length[n].iteritems(), the keys coming in order o.
iteritems(d, o) == [k \in DOMAIN o |-> <<o[k], d[o[k]]>>]

\* The same key counted from the end of the list.
name_key_reversed(originals, name) == 0 - index(originals, name)

\* key=original_names.index
name_key(originals, name) == index(originals, name)

\* sorted(result[1], key=original_names.index)
RECURSIVE sorted_names(_, _)
sorted_names(members, originals) ==
    IF members = {} THEN <<>>
    ELSE LET m == CHOOSE v \in members : \A w \in members :
                      name_key(originals, v) <= name_key(originals, w)
         IN  <<m>> \o sorted_names(members \ {m}, originals)

\* top_ngrams[n], the bucket's keys coming in order o.
ranked(d, o, originals) ==
    LET sorted_results == sorted_items(<<>>, iteritems(d, o))
    IN  [k \in 1..Len(sorted_results) |->
            [fragment |-> sorted_results[k][1],
             names |-> sorted_names(sorted_results[k][2], originals)]]

\* Every value the loop "for n in by_length" can leave in top_ngrams.
rankings(bl, originals) ==
    LET of_bucket(n) == {ranked(bl[n], o, originals) : o \in iter_orders(bl[n])}
    IN  {t \in [DOMAIN bl -> UNION {of_bucket(n) : n \in DOMAIN bl}] :
            \A n \in DOMAIN bl : t[n] \in of_bucket(n)}

(***************************************************************************)
(* The receipts of the committees listed in top_ngrams.                    *)
(***************************************************************************)
\* all_receipts = dict([(item["name"], item["total_receipts"] or 0) ...]):
\* of two records with one name the later one stays.
receipts_of(its) ==
    LET last(nm) == CHOOSE k \in 1..Len(its) :
                        its[k].name = nm /\ \A j \in (k + 1)..Len(its) : its[j].name /= nm
        total(item) == IF "total_receipts" \in DOMAIN item
                       THEN item.total_receipts ELSE 0
    IN  [nm \in {its[k].name : k \in 1..Len(its)} |-> total(its[last(nm)])]

\* The same loops run over every committee.
receipt_names_all(tn, receipts) == DOMAIN receipts

\* for n in top_ngrams: for ngram in top_ngrams[n]: for name in ngram["names"]
receipt_names(tn, receipts) ==
    UNION {UNION {Range(tn[n][k].names) : k \in DOMAIN tn[n]} : n \in DOMAIN tn}

(***************************************************************************)
(* main(), one action per step.  pc is the place main() has reached;       *)
(* written holds the files this run has opened for writing.                *)
(***************************************************************************)
named(item) == "name" \in DOMAIN item

all_named(its) == \A k \in 1..Len(its) : named(its[k])

Init ==
    /\ pc = "start"
    /\ cached \in BOOLEAN
    /\ items = <<>>
    /\ written = {}
    /\ original_names = <<>>
    /\ names = <<>>
    /\ by_length = <<>>
    /\ top_ngrams = <<>>
    /\ all_receipts = <<>>
    /\ specific_receipts = <<>>
    /\ raw = <<>>
    /\ once = <<>>
    /\ twice = <<>>

\* items = load_superpac_info(today): today's file is there and is read.
load_superpac_info ==
    /\ pc = "start"
    /\ cached
    /\ \E its \in InputLists : items' = its
    /\ pc' = "loaded"
    /\ UNCHANGED <<cached, written, original_names, names, by_length,
                   top_ngrams, all_receipts, specific_receipts>>
    /\ UNCHANGED normalize_vars

\* except Exception: items = get_superpac_info()
load_fails ==
    /\ pc = "start"
    /\ ~cached
    /\ pc' = "fetching"
    /\ UNCHANGED <<cached, items, written, original_names, names, by_length,
                   top_ngrams, all_receipts, specific_receipts>>
    /\ UNCHANGED normalize_vars

\* One turn of get_superpac_info's loop on a page that holds a record:
\* items.extend(full_results).
fetch_page ==
    /\ pc = "fetching"
    /\ Len(items) < MaxItems
    /\ \E item \in Records : items' = Append(items, item)
    /\ UNCHANGED <<pc, cached, written, original_names, names, by_length,
                   top_ngrams, all_receipts, specific_receipts>>
    /\ UNCHANGED normalize_vars

\* The turn on the empty page: NEXT_PAGE = False.
fetch_last_page ==
    /\ pc = "fetching"
    /\ pc' = "fetched"
    /\ UNCHANGED <<cached, items, written, original_names, names, by_length,
                   top_ngrams, all_receipts, specific_receipts>>
    /\ UNCHANGED normalize_vars

\* open(today + ".json", "w"); json.dump(items, ...)
write_cache ==
    /\ pc = "fetched"
    /\ written' = written \cup {CACHE_JSON}
    /\ pc' = "cache_written"
    /\ UNCHANGED <<cached, items, original_names, names, by_length,
                   top_ngrams, all_receipts, specific_receipts>>
    /\ UNCHANGED normalize_vars

\* open(today + "-names.txt", "w"), then item["name"] for every item: a
\* record without a name raises KeyError with the file already opened.
write_names ==
    /\ pc = "cache_written"
    /\ written' = written \cup {NAMES_TXT}
    /\ pc' = IF all_named(items) THEN "loaded" ELSE "error"
    /\ UNCHANGED <<cached, items, original_names, names, by_length,
                   top_ngrams, all_receipts, specific_receipts>>
    /\ UNCHANGED normalize_vars

\* original_names = [item["name"] for item in items]; names = deepcopy(...)
load_names ==
    /\ pc = "loaded"
    /\ IF all_named(items)
       THEN /\ original_names' = [k \in 1..Len(items) |-> items[k].name]
            /\ names' = original_names'
            /\ pc' = "names"
       ELSE /\ pc' = "error"
            /\ UNCHANGED <<original_names, names>>
    /\ UNCHANGED <<cached, items, written, by_length, top_ngrams,
                   all_receipts, specific_receipts>>
    /\ UNCHANGED normalize_vars

move_articles ==
    /\ pc = "names"
    /\ names' = [k \in 1..Len(names) |-> move_article(names[k])]
    /\ pc' = "articles"
    /\ UNCHANGED <<cached, items, written, original_names, by_length,
                   top_ngrams, all_receipts, specific_receipts>>
    /\ UNCHANGED normalize_vars

remove_punctuations ==
    /\ pc = "articles"
    /\ names' = [k \in 1..Len(names) |-> remove_punctuation(names[k])]
    /\ pc' = "cleaned"
    /\ UNCHANGED <<cached, items, written, original_names, by_length,
                   top_ngrams, all_receipts, specific_receipts>>
    /\ UNCHANGED normalize_vars

split_all ==
    /\ pc = "cleaned"
    /\ by_length' = split_strings(names, original_names)
    /\ pc' = "split"
    /\ UNCHANGED <<cached, items, written, original_names, names,
                   top_ngrams, all_receipts, specific_receipts>>
    /\ UNCHANGED normalize_vars

dedupe ==
    /\ pc = "split"
    /\ by_length' = remove_duplicates(by_length)
    /\ pc' = "deduped"
    /\ UNCHANGED <<cached, items, written, original_names, names,
                   top_ngrams, all_receipts, specific_receipts>>
    /\ UNCHANGED normalize_vars

sort_results ==
    /\ pc = "deduped"
    /\ top_ngrams' \in rankings(by_length, original_names)
    /\ pc' = "sorted"
    /\ UNCHANGED <<cached, items, written, original_names, names,
                   by_length, all_receipts, specific_receipts>>
    /\ UNCHANGED normalize_vars

\* open(today + '-ngrams.json', 'w'); json.dump(top_ngrams, ...)
write_ngrams ==
    /\ pc = "sorted"
    /\ written' = written \cup {NGRAMS_JSON}
    /\ pc' = "ngrams_written"
    /\ UNCHANGED <<cached, items, original_names, names, by_length,
                   top_ngrams, all_receipts, specific_receipts>>
    /\ UNCHANGED normalize_vars

collect_receipts ==
    /\ pc = "ngrams_written"
    /\ all_receipts' = receipts_of(items)
    /\ specific_receipts' =
           [nm \in receipt_names(top_ngrams, all_receipts') |-> all_receipts'[nm]]
    /\ pc' = "receipts"
    /\ UNCHANGED <<cached, items, written, original_names, names,
                   by_length, top_ngrams>>
    /\ UNCHANGED normalize_vars

\* open(today + '-receipts.json', 'w'); json.dump(specific_receipts, ...)
write_receipts ==
    /\ pc = "receipts"
    /\ written' = written \cup {RECEIPTS_JSON}
    /\ pc' = "done"
    /\ UNCHANGED <<cached, items, original_names, names, by_length,
                   top_ngrams, all_receipts, specific_receipts>>
    /\ UNCHANGED normalize_vars

Next ==
    \/ load_superpac_info
    \/ load_fails
    \/ fetch_page
    \/ fetch_last_page
    \/ write_cache
    \/ write_names
    \/ load_names
    \/ move_articles
    \/ remove_punctuations
    \/ split_all
    \/ dedupe
    \/ sort_results
    \/ write_ngrams
    \/ collect_receipts
    \/ write_receipts

Spec == Init /\ [][Next]_vars

(***************************************************************************)
(* Normalisation on its own: a string, normalised once, then once more.    *)
(***************************************************************************)
InitNormalize ==
    /\ pc = "raw"
    /\ raw \in Strings
    /\ once = <<>>
    /\ twice = <<>>
    /\ cached = FALSE
    /\ items = <<>>
    /\ written = {}
    /\ original_names = <<>>
    /\ names = <<>>
    /\ by_length = <<>>
    /\ top_ngrams = <<>>
    /\ all_receipts = <<>>
    /\ specific_receipts = <<>>

normalize_once ==
    /\ pc = "raw"
    /\ once' = normalize(raw)
    /\ pc' = "once"
    /\ UNCHANGED <<raw, twice, cached, items, written, original_names, names,
                   by_length, top_ngrams, all_receipts, specific_receipts>>

normalize_twice ==
    /\ pc = "once"
    /\ twice' = normalize(once)
    /\ pc' = "twice"
    /\ UNCHANGED <<raw, once, cached, items, written, original_names, names,
                   by_length, top_ngrams, all_receipts, specific_receipts>>

NextNormalize == normalize_once \/ normalize_twice

SpecNormalize == InitNormalize /\ [][NextNormalize]_vars

(***************************************************************************)
(* The properties.  They are stated over the run's input (items) and its   *)
(* outputs, with their own definitions of window, count and position.      *)
(***************************************************************************)
Ranked == pc \in {"sorted", "ngrams_written", "receipts", "done"}

\* Every entry of the report, as <<length, position>>.
Entries ==
    UNION {{<<n, k>> : k \in DOMAIN top_ngrams[n]} : n \in DOMAIN top_ngrams}

EntryNames(e) == top_ngrams[e[1]][e[2]].names

EntryFragment(e) == top_ngrams[e[1]][e[2]].fragment

\* The number of distinct committees an entry lists.
EntryCount(e) == Cardinality(Range(EntryNames(e)))

\* The position in the input of the first record with this name.
FirstPosition(nm) ==
    CHOOSE i \in 1..Len(items) :
        items[i].name = nm /\ \A j \in 1..(i - 1) : items[j].name /= nm

\* The words of the i-th normalised name.
WordsOf(i) == split(names[i])

\* The places of name i where words g stand as a contiguous run.
RunsOf(i, g) ==
    {x \in 1..(Len(WordsOf(i)) - Len(g) + 1) :
        \A j \in 1..Len(g) : WordsOf(i)[x + j - 1] = g[j]}

\* C1: every entry of the report lists at least two committees and none twice.
SharedByTwoDistinct ==
    Ranked =>
        \A e \in Entries :
            /\ Len(EntryNames(e)) >= 2
            /\ \A a, b \in 1..Len(EntryNames(e)) :
                   a /= b => EntryNames(e)[a] /= EntryNames(e)[b]

\* A finished run whose input holds one record twice, its name holding a word
\* twice: the report has the word, and not THE, which only that record holds.
SharedByTwoDistinctWitness ==
    /\ pc = "done"
    /\ \E i, j \in 1..Len(items) :
           i /= j /\ items[i] = items[j] /\ items[i].name = FOR_FOR_THE
    /\ 1 \in DOMAIN top_ngrams
    /\ \E k \in DOMAIN top_ngrams[1] : top_ngrams[1][k].fragment = FOR
    /\ \A k \in DOMAIN top_ngrams[1] : top_ngrams[1][k].fragment /= <<"T", "H", "E">>

\* C2: the keys of the receipt table are exactly the committees the report lists.
ReceiptKeysAreListed ==
    pc \in {"receipts", "done"} =>
        /\ \A e \in Entries : Range(EntryNames(e)) \subseteq DOMAIN specific_receipts
        /\ \A nm \in DOMAIN specific_receipts :
               \E e \in Entries : nm \in Range(EntryNames(e))

\* A finished run with a committee in the table and a committee left out of it.
ReceiptKeysAreListedWitness ==
    /\ pc = "done"
    /\ DOMAIN specific_receipts /= {}
    /\ \E i \in 1..Len(items) : items[i].name \notin DOMAIN specific_receipts

\* C3: in every bucket the count of an entry is at least that of the next.
CountsDescend ==
    Ranked =>
        \A e \in Entries :
            (e[2] + 1) \in DOMAIN top_ngrams[e[1]] =>
                EntryCount(e) >= EntryCount(<<e[1], e[2] + 1>>)

\* A bucket in which an entry lists more committees than the next one.
CountsDescendWitness ==
    /\ Ranked
    /\ \E e \in Entries :
           /\ (e[2] + 1) \in DOMAIN top_ngrams[e[1]]
           /\ EntryCount(e) > EntryCount(<<e[1], e[2] + 1>>)

\* C4: the committees of an entry stand in the order of their first
\* appearance in the input.
NamesInInputOrder ==
    Ranked =>
        \A e \in Entries :
            \A a, b \in 1..Len(EntryNames(e)) :
                a < b => FirstPosition(EntryNames(e)[a]) < FirstPosition(EntryNames(e)[b])

\* An entry whose first committee appears in the input again after its second.
NamesInInputOrderWitness ==
    /\ Ranked
    /\ \E e \in Entries :
           \E i \in 1..Len(items) :
               /\ items[i].name = EntryNames(e)[1]
               /\ i > FirstPosition(EntryNames(e)[2])

\* The windows of name i that by_length[n][g] must hold, as <<i, x>>.
WindowsAt(n, g) ==
    UNION {{<<i, x>> : x \in {y \in 1..(Len(WordsOf(i)) - n + 1) :
                                 /\ n >= 1
                                 /\ n <= Len(WordsOf(i)) - 1
                                 /\ join(SubSeq(WordsOf(i), y, y + n - 1)) = g}} :
           i \in 1..Len(names)}

\* C5: after splitting, by_length[n][g] holds the original name of a record
\* once for every n-word window of its name that reads g, for n from 1 to
\* one less than the name's word count, and nothing else: no window is
\* missing, and no name stands under a length of its word count or more.
ProperWindowsOnly ==
    pc = "split" =>
        /\ \A n \in DOMAIN by_length : \A g \in DOMAIN by_length[n] :
               \A nm \in Range(original_names) :
                   Cardinality({k \in DOMAIN by_length[n][g] : by_length[n][g][k] = nm})
                       = Cardinality({w \in WindowsAt(n, g) : original_names[w[1]] = nm})
        /\ \A i \in 1..Len(names) : \A n \in 1..(Len(WordsOf(i)) - 1) :
               \A x \in 1..(Len(WordsOf(i)) - n + 1) :
                   /\ n \in DOMAIN by_length
                   /\ join(SubSeq(WordsOf(i), x, x + n - 1)) \in DOMAIN by_length[n]

\* Split names of one word, of three words with a word twice and of four.
ProperWindowsOnlyWitness ==
    /\ pc = "split"
    /\ \E i \in 1..Len(names) : Len(WordsOf(i)) = 1
    /\ \E i \in 1..Len(names) : original_names[i] = FOR_FOR_THE
    /\ \E i \in 1..Len(names) : Len(WordsOf(i)) = 4
    /\ 3 \in DOMAIN by_length

\* C6 as stated: normalising a normalised string changes nothing.
NormalizeIdempotent == pc = "twice" => twice = once

\* C6 as amended: it changes nothing unless the normalised string holds
\* "; THE", which the first pass can leave behind or put together.
NormalizeIdempotentUnlessSemicolonThe ==
    pc = "twice" => (find(once, SEMI_THE) = -1 => twice = once)

\* A string whose article was moved, normalised twice.
NormalizeIdempotentWitness ==
    /\ pc = "twice"
    /\ find(raw, COMMA_THE) > -1
    /\ find(once, SEMI_THE) = -1
    /\ once /= raw

(***************************************************************************)
(* The example: three committees, in this order.                           *)
(***************************************************************************)
Example ==
    << [name |-> PROSPERITY, total_receipts |-> 100],
       [name |-> LIBERTY, total_receipts |-> 50],
       [name |-> PEOPLE, total_receipts |-> 10] >>

THE_AMERICANS_FOR_PROSPERITY ==
    <<"T","H","E"," ","A","M","E","R","I","C","A","N","S"," ","F","O","R"," ",
      "P","R","O","S","P","E","R","I","T","Y">>
AMERICANS == <<"A","M","E","R","I","C","A","N","S">>
FOR_AMERICANS == <<"F","O","R"," ","A","M","E","R","I","C","A","N","S">>
AMERICANS_FOR == <<"A","M","E","R","I","C","A","N","S"," ","F","O","R">>

ExampleNormalized ==
    names = <<THE_AMERICANS_FOR_PROSPERITY, LIBERTY, PEOPLE>>

ExampleReceipts ==
    /\ DOMAIN specific_receipts = {PROSPERITY, LIBERTY, PEOPLE}
    /\ specific_receipts[PROSPERITY] = 100
    /\ specific_receipts[LIBERTY] = 50
    /\ specific_receipts[PEOPLE] = 10

\* C7 as stated: on the example AMERICANS, shared by all three, is first in
\* bucket 1, and FOR AMERICANS is in bucket 2 under committees 2 and 3 only.
ExampleAsStated ==
    (pc = "done" /\ items = Example) =>
        /\ ExampleNormalized
        /\ top_ngrams[1][1].fragment = AMERICANS
        /\ Range(top_ngrams[1][1].names) = {PROSPERITY, LIBERTY, PEOPLE}
        /\ \E k \in DOMAIN top_ngrams[2] :
               /\ top_ngrams[2][k].fragment = FOR_AMERICANS
               /\ Range(top_ngrams[2][k].names) = {LIBERTY, PEOPLE}
        /\ ExampleReceipts

\* C7 as amended: AMERICANS and FOR, each shared by all three, fill bucket 1
\* in either order; bucket 2 holds AMERICANS FOR alone, under committees 1
\* and 2; FOR AMERICANS, which only committee 3 holds, is in no bucket.
ExampleAsComputed ==
    (pc = "done" /\ items = Example) =>
        /\ ExampleNormalized
        /\ DOMAIN top_ngrams = {1, 2}
        /\ {top_ngrams[1][k].fragment : k \in DOMAIN top_ngrams[1]} = {AMERICANS, FOR}
        /\ Len(top_ngrams[1]) = 2
        /\ \A k \in DOMAIN top_ngrams[1] :
               top_ngrams[1][k].names = <<PROSPERITY, LIBERTY, PEOPLE>>
        /\ top_ngrams[2] =
               <<[fragment |-> AMERICANS_FOR, names |-> <<PROSPERITY, LIBERTY>>]>>
        /\ \A e \in Entries : EntryFragment(e) /= FOR_AMERICANS
        /\ ExampleReceipts

\* The example run finished with FOR ahead of AMERICANS.
ExampleWitness ==
    /\ pc = "done"
    /\ items = Example
    /\ top_ngrams[1][1].fragment = FOR

\* C8: the report does not depend on the order in which the buckets hand
\* out their fragments: every order gives the report the run produced.
RankingIgnoresIterationOrder ==
    Ranked => \A t \in rankings(by_length, original_names) : t = top_ngrams

\* C9: a run that fails has written no file.
FailedRunWritesNothing == pc = "error" => written = {}

\* The committees whose normalised name holds the words of g as a contiguous
\* run, the whole name included.
Holders(g) ==
    {original_names[i] : i \in {j \in 1..Len(names) : RunsOf(j, split(g)) /= {}}}

\* The same, for names of more words than g.
ProperHolders(g) ==
    {original_names[i] : i \in {j \in 1..Len(names) :
        RunsOf(j, split(g)) /= {} /\ Len(WordsOf(j)) > Len(split(g))}}

\* C10 as stated: an entry lists exactly the committees whose normalised
\* name holds its fragment, a name equal to the fragment included.
ListsEveryHolder ==
    Ranked => \A e \in Entries : Range(EntryNames(e)) = Holders(EntryFragment(e))

\* C10 as amended: an entry lists exactly the committees whose normalised
\* name holds its fragment and has more words than it.
ListsEveryProperHolder ==
    Ranked => \A e \in Entries : Range(EntryNames(e)) = ProperHolders(EntryFragment(e))

\* An entry whose fragment is the whole name of a committee it does not list,
\* and an entry listing a committee whose name ends with the fragment.
ListsEveryProperHolderWitness ==
    /\ pc = "done"
    /\ \E e \in Entries : Holders(EntryFragment(e)) /= Range(EntryNames(e))
    /\ \E e \in Entries : \E i \in 1..Len(names) :
           /\ original_names[i] \in Range(EntryNames(e))
           /\ RunsOf(i, split(EntryFragment(e)))
                  = {Len(WordsOf(i)) - Len(split(EntryFragment(e))) + 1}

====
